---- MODULE Spec2Model ----
(***************************************************************************)
(* Link-graph consumption layer of OpenObs: the three data hooks           *)
(* (useGraph, useLocalGraph, useLinks) with their module-level caches, and *)
(* the filter stage transformToD3.                                         *)
(*                                                                         *)
(* The hooks share no state with each other: graphCache keys 'full' and    *)
(* 'local:<path>:<depth>' are disjoint and linksCache is a separate map.   *)
(* A behaviour of Spec therefore follows one hook (variable panel) together*)
(* with the environment it runs in: the clock, the vault on disk and the   *)
(* backend answering the requests in any order.                            *)
(***************************************************************************)
EXTENDS Integers, Sequences, FiniteSets, TLC

\* ------------------------------------------------------------------------
\* Bounds
\* ------------------------------------------------------------------------
MaxRequests == 3       \* backend invocations issued in one behaviour
MaxTicks == 2          \* clock steps in one behaviour
MaxMutations == 1      \* persisted vault writes in one behaviour
DepthsUsed == 2        \* depths MinDepth..DepthsUsed are selected (at most MaxDepth)
MaxRefs == 1           \* references in one note's text

\* ------------------------------------------------------------------------
\* Program constants
\* ------------------------------------------------------------------------
GRAPH_CACHE_TTL == 60000
LINKS_CACHE_TTL == 30000
MinDepth == 1
MaxDepth == 3
minSize == 4
maxSize == 20

\* One clock step; half the shorter TTL would double the clock range, the
\* shorter TTL itself makes both TTLs expire exactly on a step.
TickMs == LINKS_CACHE_TTL

null == "null"
NotePaths == {"a.md", "b.md"}
Depths == MinDepth..(IF DepthsUsed < MaxDepth THEN DepthsUsed ELSE MaxDepth)
Panels == {"graph", "local", "links"}

VARIABLES
  panel,               \* the component a behaviour follows
  now,                 \* Date.now()
  notes,               \* note files present in the vault
  vaultVer,            \* number of persisted writes the vault has seen
  vaultPath,           \* the store's vaultPath: the vault that is open
  v1Payloads,          \* invocations answered while the first vault was open
  vaultRefs,           \* note title -> identifiers its text refers to
  backendResult,       \* the last backend command and what it returned
  click,               \* the wikilink click handler that is awaiting the backend
  shownResolved,       \* targets the outgoing-links list shows as resolved
  nextId,              \* number of backend invocations issued so far
  inflight,            \* invocations the backend has not answered yet
  preInvalidation,     \* in-flight invocations issued before their key's entry was removed
  graphCache,          \* Map key -> {data, timestamp}
  linksCache,          \* Map path -> {backlinks, outgoingLinks, timestamp}
  \* useGraph (GraphView)
  gMounted, gRawData, gIsLoading, gError, fetchInProgressRef,
  \* useLocalGraph (LocalGraph)
  centerPath, depth, lgRawData, lgIsLoading, lgError, lgCurrentPathRef,
  \* useLinks (BacklinksPanel / OutgoingLinksPanel)
  activeFilePath, links, lIsLoading, lError, lCurrentPathRef,
  \* filter stage (GraphControls + transformToD3)
  filterInput, filterCenterPath, currentFilters, graphData,
  \* editor tab store
  openFiles,           \* paths of the open tabs, in tab order
  \* Editor auto-save
  localContent,        \* the text in the editor
  diskContent,         \* the text in the note's file
  lastSavedContentRef, isSavingRef, saveState, pendingContentRef,
  debounceTimer,       \* the content the armed debounce timer will save, or null
  writeInFlight        \* the content of the writeFile call not yet settled, or null

vaultVars == <<vaultPath, v1Payloads>>
builderVars == <<vaultRefs, backendResult>>
clickVars == <<click, shownResolved>>
envVars == <<now, notes, vaultVer, vaultVars, builderVars, clickVars>>
cacheVars == <<graphCache, linksCache>>
histVars == <<preInvalidation>>
tabVars == <<openFiles>>
editorVars == <<localContent, diskContent, lastSavedContentRef, isSavingRef, saveState,
                pendingContentRef, debounceTimer, writeInFlight>>
graphVars == <<gMounted, gRawData, gIsLoading, gError, fetchInProgressRef>>
localVars == <<centerPath, depth, lgRawData, lgIsLoading, lgError, lgCurrentPathRef>>
linksVars == <<activeFilePath, links, lIsLoading, lError, lCurrentPathRef>>
filterVars == <<filterInput, filterCenterPath, currentFilters, graphData>>
vars == <<panel, envVars, histVars, tabVars, editorVars, nextId, inflight, cacheVars, graphVars, localVars,
          linksVars, filterVars>>

\* ------------------------------------------------------------------------
\* Cache keys, payloads, Map operations
\* ------------------------------------------------------------------------
FullKey == <<"full">>
LocalKey(path, d) == <<"local", path, d>>
LinksKey(path) == <<"links", path>>

\* The object the backend returns to invocation number id, made for key.
Payload(key, id) == [key |-> key, id |-> id]

NoEntry == [data |-> [key |-> <<"none">>, id |-> 0], timestamp |-> 0]
MapHas(m, k) == k \in DOMAIN m
MapSet(m, k, e) == [x \in (DOMAIN m) \cup {k} |-> IF x = k THEN e ELSE m[x]]
MapDelete(m, k) == [x \in (DOMAIN m) \ {k} |-> m[x]]
EmptyMap == [x \in {} |-> NoEntry]

IsFreshMutLe(entry, ttl) == now - entry.timestamp <= ttl
\* cached && Date.now() - cached.timestamp < CACHE_TTL
IsFresh(entry, ttl) == now - entry.timestamp < ttl

NewRequest(key, live) == [id |-> nextId + 1, key |-> key, live |-> live]

Issue(key, live) ==
  /\ nextId < MaxRequests
  /\ nextId' = nextId + 1
  /\ inflight' = inflight \cup {NewRequest(key, live)}

\* useState<GraphData | null>(null): no payload held
NoData == [key |-> <<"none">>, id |-> 0]
\* useState<LinkInfo[]>([]): both lists empty, no payload held
EmptyLinks == [key |-> <<"empty">>, id |-> 0]

\* The in-flight invocations for key k become pre-invalidation ones when the
\* entry of k is removed from the cache
Invalidate(removed, k) ==
  preInvalidation' = IF removed
                     THEN preInvalidation \cup {r.id : r \in {x \in inflight : x.key = k}}
                     ELSE preInvalidation

\* an invocation is answered
Answered(r) == preInvalidation' = preInvalidation \ {r.id}

LinksHit(cache, path) == MapHas(cache, path) /\ IsFresh(cache[path], LINKS_CACHE_TTL)
GraphHit(cache, k) == MapHas(cache, k) /\ IsFresh(cache[k], GRAPH_CACHE_TTL)

\* ------------------------------------------------------------------------
\* useLinks
\* ------------------------------------------------------------------------
\* fetchLinks of the render whose path is `path`, run on the cache `cache`
FetchLinks(path, cache) ==
  /\ linksCache' = cache
  /\ IF path = null
     THEN /\ links' = EmptyLinks
          /\ lError' = null
          /\ UNCHANGED <<lIsLoading, lCurrentPathRef, nextId, inflight>>
     ELSE IF LinksHit(cache, path)
     THEN /\ links' = cache[path].data
          /\ lError' = null
          /\ UNCHANGED <<lIsLoading, lCurrentPathRef, nextId, inflight>>
     ELSE /\ Issue(LinksKey(path), TRUE)
          /\ lCurrentPathRef' = path
          /\ lIsLoading' = TRUE
          /\ lError' = null
          /\ UNCHANGED links

\* The store's activeFilePath changes (a tab is opened, closed or selected);
\* the panel re-renders and the effect runs the new fetchLinks.
SetActiveFilePath(p) ==
  /\ panel = "links"
  /\ p # activeFilePath
  /\ activeFilePath' = p
  /\ FetchLinks(p, linksCache)
  /\ UNCHANGED <<panel, tabVars, editorVars, histVars, envVars, graphCache, graphVars, localVars, filterVars>>

\* refresh of useLinks
LinksRefresh ==
  /\ panel = "links"
  /\ FetchLinks(activeFilePath,
                IF activeFilePath # null THEN MapDelete(linksCache, activeFilePath)
                                         ELSE linksCache)
  /\ Invalidate(activeFilePath # null /\ MapHas(linksCache, activeFilePath),
                LinksKey(activeFilePath))
  /\ UNCHANGED <<panel, tabVars, editorVars, envVars, graphCache, graphVars, localVars, filterVars,
                 activeFilePath>>

\* Promise.all of get_backlinks and get_outgoing_links resolves
LinksResponseOk(r) ==
  /\ r \in inflight
  /\ r.key[1] = "links"
  /\ inflight' = inflight \ {r}
  /\ IF lCurrentPathRef = r.key[2]
     THEN /\ links' = Payload(r.key, r.id)
          /\ linksCache' = MapSet(linksCache, r.key[2],
                                  [data |-> Payload(r.key, r.id), timestamp |-> now])
          /\ lIsLoading' = FALSE
     ELSE UNCHANGED <<links, linksCache, lIsLoading>>
  /\ Answered(r)
  /\ UNCHANGED <<panel, tabVars, editorVars, envVars, nextId, graphCache, graphVars, localVars, filterVars,
                 activeFilePath, lError, lCurrentPathRef>>

LinksResponseErrMutCachesFailure(r) ==
  /\ r \in inflight
  /\ r.key[1] = "links"
  /\ inflight' = inflight \ {r}
  /\ IF lCurrentPathRef = r.key[2]
     THEN /\ lError' = "Failed to fetch links"
          /\ lIsLoading' = FALSE
          /\ linksCache' = MapSet(linksCache, r.key[2],
                                  [data |-> EmptyLinks, timestamp |-> now])
     ELSE UNCHANGED <<lError, lIsLoading, linksCache>>
  /\ Answered(r)
  /\ UNCHANGED <<panel, tabVars, editorVars, envVars, nextId, graphCache, graphVars,
                 localVars, filterVars, activeFilePath, links, lCurrentPathRef>>

\* one of the two invocations rejects
LinksResponseErr(r) ==
  /\ r \in inflight
  /\ r.key[1] = "links"
  /\ inflight' = inflight \ {r}
  /\ IF lCurrentPathRef = r.key[2]
     THEN /\ lError' = "Failed to fetch links"
          /\ lIsLoading' = FALSE
     ELSE UNCHANGED <<lError, lIsLoading>>
  /\ Answered(r)
  /\ UNCHANGED <<panel, tabVars, editorVars, envVars, nextId, cacheVars, graphVars, localVars, filterVars,
                 activeFilePath, links, lCurrentPathRef>>

\* ------------------------------------------------------------------------
\* useLocalGraph
\* ------------------------------------------------------------------------
\* fetchLocalGraph of the render with props/state (path, d), run on `cache`
FetchLocalGraph(path, d, cache) ==
  /\ graphCache' = cache
  /\ IF path = null
     THEN /\ lgRawData' = NoData
          /\ lgError' = null
          /\ UNCHANGED <<lgIsLoading, lgCurrentPathRef, nextId, inflight>>
     ELSE IF GraphHit(cache, LocalKey(path, d))
     THEN /\ lgRawData' = cache[LocalKey(path, d)].data
          /\ lgError' = null
          /\ UNCHANGED <<lgIsLoading, lgCurrentPathRef, nextId, inflight>>
     ELSE /\ Issue(LocalKey(path, d), TRUE)
          /\ lgCurrentPathRef' = path
          /\ lgIsLoading' = TRUE
          /\ lgError' = null
          /\ UNCHANGED lgRawData

\* the centerPath prop changes; the effect runs the new fetchLocalGraph
SetCenterPath(p) ==
  /\ panel = "local"
  /\ p # centerPath
  /\ centerPath' = p
  /\ FetchLocalGraph(p, depth, graphCache)
  /\ UNCHANGED <<panel, tabVars, editorVars, histVars, envVars, linksCache, graphVars, linksVars, filterVars, depth>>

\* setDepth, reached from GraphControls.handleDepthChange, which lets only
\* 1..3 through
SetDepth(d) ==
  /\ panel = "local"
  /\ d # depth
  /\ depth' = d
  /\ FetchLocalGraph(centerPath, d, graphCache)
  /\ UNCHANGED <<panel, tabVars, editorVars, histVars, envVars, linksCache, graphVars, linksVars, filterVars, centerPath>>

\* values the depth input hands to handleDepthChange: the depths selected
\* and one value on either side of the range
DepthInputs == Depths \cup {MinDepth - 1, MaxDepth + 1}

handleDepthChangeMutNoUpper(value) ==
  /\ value >= MinDepth
  /\ SetDepth(value)

\* GraphControls.handleDepthChange with onDepthChange = setDepth
handleDepthChange(value) ==
  /\ value >= MinDepth /\ value <= MaxDepth
  /\ SetDepth(value)

\* refresh of useLocalGraph
LocalRefresh ==
  /\ panel = "local"
  /\ FetchLocalGraph(centerPath, depth,
                     IF centerPath # null
                     THEN MapDelete(graphCache, LocalKey(centerPath, depth))
                     ELSE graphCache)
  /\ Invalidate(centerPath # null /\ MapHas(graphCache, LocalKey(centerPath, depth)),
                LocalKey(centerPath, depth))
  /\ UNCHANGED <<panel, tabVars, editorVars, envVars, linksCache, graphVars, linksVars, filterVars,
                 centerPath, depth>>

\* Local Graph Resolver: the center path corresponds to a known note;
\* otherwise the operation fails with NotFound
KnownNote(path) == path \in notes

cacheKeyMutCurrentSelection(r) == LocalKey(centerPath, depth)

\* const cacheKey = `local:${centerPath}:${depth}` of the render that made
\* the request
cacheKey(r) == r.key

\* get_local_graph resolves, which it does for a known center only
LocalResponseOk(r) ==
  /\ r \in inflight
  /\ r.key[1] = "local"
  /\ KnownNote(r.key[2])
  /\ inflight' = inflight \ {r}
  /\ IF lgCurrentPathRef = r.key[2]
     THEN /\ lgRawData' = Payload(r.key, r.id)
          /\ graphCache' = MapSet(graphCache, cacheKey(r),
                                  [data |-> Payload(r.key, r.id), timestamp |-> now])
          /\ lgIsLoading' = FALSE
     ELSE UNCHANGED <<lgRawData, graphCache, lgIsLoading>>
  /\ Answered(r)
  /\ UNCHANGED <<panel, tabVars, editorVars, envVars, nextId, linksCache, graphVars, linksVars, filterVars,
                 centerPath, depth, lgError, lgCurrentPathRef>>

LocalResponseErrMutKeepsLoading(r) ==
  /\ r \in inflight
  /\ r.key[1] = "local"
  /\ inflight' = inflight \ {r}
  /\ IF lgCurrentPathRef = r.key[2]
     THEN lgError' = "Failed to fetch local graph"
     ELSE UNCHANGED lgError
  /\ Answered(r)
  /\ UNCHANGED <<panel, tabVars, editorVars, envVars, nextId, cacheVars, graphVars,
                 linksVars, filterVars, centerPath, depth, lgRawData, lgCurrentPathRef,
                 lgIsLoading>>

\* get_local_graph rejects
LocalResponseErr(r) ==
  /\ r \in inflight
  /\ r.key[1] = "local"
  /\ inflight' = inflight \ {r}
  /\ IF lgCurrentPathRef = r.key[2]
     THEN /\ lgError' = "Failed to fetch local graph"
          /\ lgIsLoading' = FALSE
     ELSE UNCHANGED <<lgError, lgIsLoading>>
  /\ Answered(r)
  /\ UNCHANGED <<panel, tabVars, editorVars, envVars, nextId, cacheVars, graphVars, linksVars, filterVars,
                 centerPath, depth, lgRawData, lgCurrentPathRef>>

\* ------------------------------------------------------------------------
\* useGraph
\* ------------------------------------------------------------------------
\* fetchGraph of the mounted instance, run on the cache `cache`
FetchGraph(inProgress, cache) ==
  /\ graphCache' = cache
  /\ IF inProgress
     THEN UNCHANGED <<gRawData, gIsLoading, gError, fetchInProgressRef, nextId, inflight>>
     ELSE IF GraphHit(cache, FullKey)
     THEN /\ gRawData' = cache[FullKey].data
          /\ gError' = null
          /\ UNCHANGED <<gIsLoading, fetchInProgressRef, nextId, inflight>>
     ELSE /\ Issue(FullKey, TRUE)
          /\ fetchInProgressRef' = TRUE
          /\ gIsLoading' = TRUE
          /\ gError' = null
          /\ UNCHANGED gRawData

\* GraphView is shown: a new hook instance (state as constructed) whose
\* mount effect runs fetchGraph
GraphMount ==
  /\ panel = "graph"
  /\ ~gMounted
  /\ gMounted' = TRUE
  /\ FetchGraph(FALSE, graphCache)
  /\ UNCHANGED <<panel, tabVars, editorVars, histVars, envVars, linksCache, localVars, linksVars, filterVars>>

\* GraphView is hidden: the instance is gone, its invocation stays in flight
GraphUnmount ==
  /\ panel = "graph"
  /\ gMounted
  /\ gMounted' = FALSE
  /\ gRawData' = NoData
  /\ gIsLoading' = FALSE
  /\ gError' = null
  /\ fetchInProgressRef' = FALSE
  /\ inflight' = {[r EXCEPT !.live = FALSE] : r \in inflight}
  /\ UNCHANGED <<panel, tabVars, editorVars, histVars, envVars, nextId, cacheVars, localVars, linksVars, filterVars>>

\* refresh of useGraph
GraphRefresh ==
  /\ panel = "graph"
  /\ gMounted
  /\ FetchGraph(fetchInProgressRef, MapDelete(graphCache, FullKey))
  /\ Invalidate(MapHas(graphCache, FullKey), FullKey)
  /\ UNCHANGED <<panel, tabVars, editorVars, envVars, linksCache, localVars, linksVars, filterVars, gMounted>>

\* get_graph_data resolves
GraphResponseOk(r) ==
  /\ r \in inflight
  /\ r.key = FullKey
  /\ inflight' = inflight \ {r}
  /\ graphCache' = MapSet(graphCache, FullKey,
                          [data |-> Payload(r.key, r.id), timestamp |-> now])
  /\ IF r.live
     THEN /\ gRawData' = Payload(r.key, r.id)
          /\ gIsLoading' = FALSE
          /\ fetchInProgressRef' = FALSE
     ELSE UNCHANGED <<gRawData, gIsLoading, fetchInProgressRef>>
  /\ Answered(r)
  /\ UNCHANGED <<panel, tabVars, editorVars, envVars, nextId, linksCache, localVars, linksVars, filterVars,
                 gMounted, gError>>

\* get_graph_data rejects
GraphResponseErr(r) ==
  /\ r \in inflight
  /\ r.key = FullKey
  /\ inflight' = inflight \ {r}
  /\ IF r.live
     THEN /\ gError' = "Failed to fetch graph data"
          /\ gIsLoading' = FALSE
          /\ fetchInProgressRef' = FALSE
     ELSE UNCHANGED <<gError, gIsLoading, fetchInProgressRef>>
  /\ Answered(r)
  /\ UNCHANGED <<panel, tabVars, editorVars, envVars, nextId, cacheVars, localVars, linksVars, filterVars,
                 gMounted, gRawData>>

\* ------------------------------------------------------------------------
\* Environment: clock and persisted vault mutations
\* ------------------------------------------------------------------------
Tick ==
  /\ now < MaxTicks * TickMs
  /\ now' = now + TickMs
  /\ UNCHANGED <<panel, tabVars, editorVars, histVars, notes, vaultVer, vaultVars, builderVars, clickVars, nextId,
                 inflight, cacheVars, graphVars, localVars, linksVars, filterVars>>

\* What every mutation handler leaves alone: none of them calls
\* clearGraphCache or clearLinksCache
MutationFrame ==
  UNCHANGED <<panel, tabVars, editorVars, histVars, now, vaultVars, builderVars, clickVars, nextId, inflight,
              cacheVars, graphVars, localVars, linksVars, filterVars>>

\* Sidebar.confirmCreateNote: createNote succeeds
ConfirmCreateNote(p) ==
  /\ vaultVer < MaxMutations
  /\ p \notin notes
  /\ notes' = notes \cup {p}
  /\ vaultVer' = vaultVer + 1
  /\ MutationFrame

\* Sidebar.confirmDelete: deleteFile succeeds
ConfirmDelete(p) ==
  /\ vaultVer < MaxMutations
  /\ p \in notes
  /\ notes' = notes \ {p}
  /\ vaultVer' = vaultVer + 1
  /\ MutationFrame

\* Sidebar.confirmRename: renameFile succeeds
ConfirmRename(p, q) ==
  /\ vaultVer < MaxMutations
  /\ p \in notes
  /\ q \notin notes
  /\ notes' = (notes \ {p}) \cup {q}
  /\ vaultVer' = vaultVer + 1
  /\ MutationFrame

\* Editor.saveToFile: writeFile succeeds
SaveToFile(p) ==
  /\ vaultVer < MaxMutations
  /\ p \in notes
  /\ notes' = notes
  /\ vaultVer' = vaultVer + 1
  /\ MutationFrame

\* VaultPicker.handleOpenVault: openVault(path) succeeds for the second vault
\* and setVault stores it. setVault writes the vault slice only: the caches,
\* the hooks and the editor's open files stay as they are. The invocations
\* answered so far were computed from the first vault.
SetVault ==
  /\ vaultPath = "V1"
  /\ vaultPath' = "V2"
  /\ v1Payloads' = (1..nextId) \ {r.id : r \in inflight}
  /\ UNCHANGED <<panel, tabVars, editorVars, histVars, now, notes, vaultVer, builderVars, clickVars, nextId, inflight,
                 cacheVars, graphVars, localVars, linksVars, filterVars>>

\* ------------------------------------------------------------------------
\* Filter stage: graph payloads
\* ------------------------------------------------------------------------
\* Strings that are searched or sliced are sequences of characters.
PathAX == <<"a", "/", "x">>
PathAY == <<"a", "/", "y">>
PathBZ == <<"b", "/", "z">>
ConceptId == <<"#", "c">>
NoteIds == {PathAX, PathAY, PathBZ}
NodeOrder == <<PathAX, PathAY, PathBZ, ConceptId>>

\* GraphEdge
Edge(s, t, ty) == [source |-> s, target |-> t, edgeType |-> ty,
                   concept |-> IF ty = "concept" THEN "c" ELSE ""]
EdgeOrder == << Edge(PathAX, PathAY, "direct"), Edge(PathAX, PathBZ, "direct"),
                Edge(PathAY, PathBZ, "direct"), Edge(PathAX, ConceptId, "concept"),
                Edge(PathAY, ConceptId, "concept"), Edge(PathBZ, ConceptId, "concept") >>

SeqToSet(s) == {s[i] : i \in 1..Len(s)}
Touches(e, id) == e.source = id \/ e.target = id
\* number of edges of the sequence es that have id as an endpoint
Degree(es, id) == Cardinality({i \in 1..Len(es) : Touches(es[i], id)})

\* GraphNode as the Graph Builder emits it: a note's id is its path, a
\* concept has an empty path, connections counts the edges touching the node
Node(id, es) == [id |-> id,
                 path |-> IF id \in NoteIds THEN id ELSE <<>>,
                 connections |-> Degree(es, id),
                 nodeType |-> IF id \in NoteIds THEN "note" ELSE "concept"]

\* GraphData with the nodes ids and the edges es (a subsequence of EdgeOrder)
Graph(ids, es) ==
  LET present == SelectSeq(NodeOrder, LAMBDA id : id \in ids)
      refs == SelectSeq(es, LAMBDA e : e.edgeType = "concept")
  IN [nodes |-> [i \in 1..Len(present) |-> Node(present[i], es)],
      edges |-> es,
      concepts |-> IF ConceptId \in ids
                   THEN << [name |-> "c", count |-> Len(refs),
                            notes |-> [i \in 1..Len(refs) |-> refs[i].source]] >>
                   ELSE << >>]

\* The payloads the filter stage is run on: every edge joins two nodes of the
\* payload and a concept node exists only while a note refers to it
GraphInputs ==
  { Graph(ids, SelectSeq(EdgeOrder, LAMBDA e : e \in es)) :
      <<ids, es>> \in { x \in (SUBSET SeqToSet(NodeOrder)) \X (SUBSET SeqToSet(EdgeOrder)) :
                         /\ \A e \in x[2] : e.source \in x[1] /\ e.target \in x[1]
                         /\ ConceptId \in x[1] => \E e \in x[2] : e.target = ConceptId } }

\* Payloads whose edges may name nodes that are missing from the node list
RawGraphInputs ==
  { Graph(x[1], SelectSeq(EdgeOrder, LAMBDA e : e \in x[2])) :
      x \in (SUBSET SeqToSet(NodeOrder)) \X (SUBSET SeqToSet(EdgeOrder)) }

\* ------------------------------------------------------------------------
\* Filter stage: transformToD3
\* ------------------------------------------------------------------------
StartsWith(s, prefix) == Len(prefix) <= Len(s) /\ SubSeq(s, 1, Len(prefix)) = prefix

\* String.prototype.lastIndexOf, 0-based, -1 when absent
LastIndexOf(s, ch) ==
  LET hits == {i \in 1..Len(s) : s[i] = ch}
  IN IF hits = {} THEN -1 ELSE (CHOOSE i \in hits : \A j \in hits : j <= i) - 1

getFolderPath(path) ==
  LET lastSlash == LastIndexOf(path, "/")
  IN IF lastSlash > 0 THEN SubSeq(path, 1, lastSlash) ELSE <<"/">>

\* minSize + ratio * (maxSize - minSize) as the fraction num/den
calculateNodeSize(connections, maxConnections) ==
  IF maxConnections = 0
  THEN [num |-> minSize, den |-> 1]
  ELSE [num |-> minSize * maxConnections + connections * (maxSize - minSize),
        den |-> maxConnections]

SetMax(S) == CHOOSE m \in S : \A x \in S : x <= m

\* destructuring default: `= true` applies to undefined only
OrDefaultTrue(flag) == IF flag = "undefined" THEN TRUE ELSE flag = "true"

\* data.nodes.filter(...): folder scope, then orphans by the payload's count
NodeFilter(data, filters) ==
  SelectSeq(data.nodes, LAMBDA node :
    /\ ~(filters.folderPath # <<>> /\ ~StartsWith(node.path, filters.folderPath))
    /\ ~(~OrDefaultTrue(filters.showOrphans) /\ node.connections = 0))

EdgeFilterMutNoEndpointCheck(data, filters, validNodeIds) ==
  SelectSeq(data.edges, LAMBDA edge :
    ~(~OrDefaultTrue(filters.showConceptLinks) /\ edge.edgeType = "concept"))

EdgeFilterMutSourceOnly(data, filters, validNodeIds) ==
  SelectSeq(data.edges, LAMBDA edge :
    /\ ~(edge.source \notin validNodeIds)
    /\ ~(~OrDefaultTrue(filters.showConceptLinks) /\ edge.edgeType = "concept"))

\* data.edges.filter(...) against validNodeIds
EdgeFilter(data, filters, validNodeIds) ==
  SelectSeq(data.edges, LAMBDA edge :
    /\ ~(edge.source \notin validNodeIds \/ edge.target \notin validNodeIds)
    /\ ~(~OrDefaultTrue(filters.showConceptLinks) /\ edge.edgeType = "concept"))

\* if (!showOrphans) { ... filteredNodes.filter(connectedIds.has || connections > 0) }
OrphanFilter(filteredNodes, filteredEdges, filters) ==
  IF ~OrDefaultTrue(filters.showOrphans)
  THEN LET connectedIds == {filteredEdges[i].source : i \in 1..Len(filteredEdges)}
                           \cup {filteredEdges[i].target : i \in 1..Len(filteredEdges)}
       IN SelectSeq(filteredNodes, LAMBDA n : n.id \in connectedIds \/ n.connections > 0)
  ELSE filteredNodes

transformToD3(data, filters, center) ==
  LET maxConnections == SetMax({data.nodes[i].connections : i \in 1..Len(data.nodes)} \cup {1})
      firstPass == NodeFilter(data, filters)
      validNodeIds == {firstPass[i].id : i \in 1..Len(firstPass)}
      filteredEdges == EdgeFilter(data, filters, validNodeIds)
      filteredNodes == OrphanFilter(firstPass, filteredEdges, filters)
      d3Nodes == [i \in 1..Len(filteredNodes) |->
                    [id |-> filteredNodes[i].id,
                     path |-> filteredNodes[i].path,
                     connections |-> filteredNodes[i].connections,
                     nodeType |-> filteredNodes[i].nodeType,
                     size |-> calculateNodeSize(filteredNodes[i].connections, maxConnections),
                     isCenter |-> IF center # <<>> THEN filteredNodes[i].path = center
                                                   ELSE FALSE,
                     folder |-> getFolderPath(filteredNodes[i].path)]]
      filteredConcepts == SelectSeq(data.concepts, LAMBDA c :
                            \E i \in 1..Len(c.notes) : c.notes[i] \in validNodeIds)
  IN [nodes |-> d3Nodes, edges |-> filteredEdges, concepts |-> filteredConcepts]

\* getUniqueFolders: the folders GraphControls offers in its select
getUniqueFolders(data) == {getFolderPath(data.nodes[i].path) : i \in 1..Len(data.nodes)}

\* node.tags?: the tags an output node carries; GraphNode has no tags field
\* and transformToD3 adds none, so the optional chain finds nothing
NodeTags(node) == IF "tags" \in DOMAIN node THEN node.tags ELSE {}

Filters(folderPath, tag, showOrphans, showConceptLinks) ==
  [folderPath |-> folderPath, tag |-> tag, showOrphans |-> showOrphans,
   showConceptLinks |-> showConceptLinks]

applyFiltersMutFiltersShown(newFilters) ==
  /\ panel = "filter"
  /\ currentFilters' = newFilters
  /\ graphData' = transformToD3(graphData, newFilters, filterCenterPath)
  /\ UNCHANGED <<panel, tabVars, editorVars, histVars, envVars, nextId, inflight, cacheVars,
                 graphVars, localVars, linksVars, filterInput, filterCenterPath>>

\* applyFilters: setCurrentFilters, then the graphData memo is recomputed
\* from rawData and the filters
applyFilters(newFilters) ==
  /\ panel = "filter"
  /\ currentFilters' = newFilters
  /\ graphData' = transformToD3(filterInput, newFilters, filterCenterPath)
  /\ UNCHANGED <<panel, tabVars, editorVars, histVars, envVars, nextId, inflight, cacheVars, graphVars, localVars,
                 linksVars, filterInput, filterCenterPath>>

\* GraphControls handlers; '' stands for an absent folderPath or tag
handleFolderChange(value) ==
  applyFilters([currentFilters EXCEPT !.folderPath = value])

handleTagChange(value) ==
  applyFilters([currentFilters EXCEPT !.tag = value])

handleToggleOrphans ==
  applyFilters([currentFilters EXCEPT
    !.showOrphans = IF currentFilters.showOrphans = "true" THEN "false" ELSE "true"])

handleToggleConceptLinks ==
  applyFilters([currentFilters EXCEPT
    !.showConceptLinks = IF currentFilters.showConceptLinks = "false" THEN "true" ELSE "false"])

handleClearFilters ==
  applyFilters(Filters(<<>>, "", "true", "true"))

\* filters the components start with: GraphView's and LocalGraph's defaults
InitialFilters == { Filters(<<>>, "", "true", "true"), Filters(<<>>, "", "true", "undefined") }

NoGraph == [nodes |-> <<>>, edges |-> <<>>, concepts |-> <<>>]

\* ------------------------------------------------------------------------
\* Graph engine behind get_graph_data and get_local_graph: Resolution Index,
\* Concept Synthesizer, Graph Builder, Local Graph Resolver
\* ------------------------------------------------------------------------
\* Normalized identifiers; a note's title is its identifier
Titles == {"A", "B", "C", "D"}

NoteId(t) == <<"note", t>>
ConceptIdOf(t) == <<"concept", t>>

\* The vaults the engine is run on: every note refers to at most MaxRefs
\* identifiers
Vaults ==
  UNION { [present -> {R \in SUBSET Titles : Cardinality(R) <= MaxRefs}] :
            present \in SUBSET Titles }

EmptyVault == [t \in {} |-> {}]

\* Resolution Index: a reference resolves iff a note has that title
Resolves(vault, t) == t \in DOMAIN vault

ConceptsMutKeepResolved(vault) ==
  {t \in Titles : \E s \in DOMAIN vault : t \in vault[s]}

\* Concept Synthesizer: one concept per unresolved identifier that has at
\* least one reference
Concepts(vault) ==
  {t \in Titles : ~Resolves(vault, t) /\ \E s \in DOMAIN vault : t \in vault[s]}

\* Graph Builder: one direct edge per resolved reference (same source and
\* target collapse), one concept edge per unresolved reference
BuilderEdges(vault) ==
  { [source |-> NoteId(x[1]),
     target |-> IF Resolves(vault, x[2]) THEN NoteId(x[2]) ELSE ConceptIdOf(x[2]),
     edgeType |-> IF Resolves(vault, x[2]) THEN "direct" ELSE "concept",
     concept |-> IF Resolves(vault, x[2]) THEN "" ELSE x[2]] :
      x \in {y \in (DOMAIN vault) \X Titles : y[2] \in vault[y[1]]} }

\* connection count: the edges touching the node
Connections(edges, id) == Cardinality({e \in edges : Touches(e, id)})

BuilderNode(id, edges) ==
  [id |-> id,
   path |-> IF id[1] = "note" THEN id[2] ELSE "",
   connections |-> Connections(edges, id),
   nodeType |-> id[1]]

buildGraph(vault) ==
  LET edges == BuilderEdges(vault)
      ids == {NoteId(t) : t \in DOMAIN vault} \cup {ConceptIdOf(t) : t \in Concepts(vault)}
  IN [status |-> "ok", nodes |-> {BuilderNode(id, edges) : id \in ids}, edges |-> edges]

\* a command paired with its response
Returned(cmd, response) ==
  [cmd |-> cmd, status |-> response.status, nodes |-> response.nodes,
   edges |-> response.edges]

NodeIds(g) == {n.id : n \in g.nodes}

NeighborsMutDirectOnly(g, S) ==
  {id \in NodeIds(g) : \E e \in g.edges :
     /\ e.edgeType = "direct"
     /\ \/ e.source \in S /\ e.target = id
        \/ e.target \in S /\ e.source = id}

\* the nodes one hop from a node of S, over all edges in either direction
Neighbors(g, S) ==
  {id \in NodeIds(g) : \E e \in g.edges :
     \/ e.source \in S /\ e.target = id
     \/ e.target \in S /\ e.source = id}

\* breadth-first traversal: the nodes visited after at most k more hops
RECURSIVE Traverse(_, _, _)
Traverse(g, visited, k) ==
  IF k = 0 THEN visited
  ELSE Traverse(g, visited \cup Neighbors(g, visited), k - 1)

NotFound == [status |-> "NotFound", nodes |-> {}, edges |-> {}]
NoGraphResponse == [status |-> "none", nodes |-> {}, edges |-> {}]
NoResult == Returned(<<"none">>, NoGraphResponse)

\* Local Graph Resolver
localGraph(g, center, d) ==
  IF NoteId(center) \notin NodeIds(g)
  THEN NotFound
  ELSE LET included == Traverse(g, {NoteId(center)}, d)
       IN [status |-> "ok",
           nodes |-> {n \in g.nodes : n.id \in included},
           edges |-> {e \in g.edges : e.source \in included /\ e.target \in included}]

BuilderFrame ==
  UNCHANGED <<panel, tabVars, editorVars, histVars, now, notes, vaultVars, clickVars, nextId, inflight, cacheVars,
              graphVars, localVars, linksVars, filterVars>>

\* command get_graph_data
get_graph_data ==
  /\ panel = "builder"
  /\ backendResult' = Returned(<<"get_graph_data">>, buildGraph(vaultRefs))
  /\ UNCHANGED <<vaultRefs, vaultVer>>
  /\ BuilderFrame

\* command get_local_graph
get_local_graph(path, d) ==
  /\ panel = "builder"
  /\ backendResult' = Returned(<<"get_local_graph", path, d>>,
                                localGraph(buildGraph(vaultRefs), path, d))
  /\ UNCHANGED <<vaultRefs, vaultVer>>
  /\ BuilderFrame

\* a note with title t and no references is created in the vault
create_note(t) ==
  /\ panel = "builder"
  /\ vaultVer < MaxMutations
  /\ ~Resolves(vaultRefs, t)
  /\ vaultRefs' = [x \in (DOMAIN vaultRefs) \cup {t} |-> IF x = t THEN {} ELSE vaultRefs[x]]
  /\ vaultVer' = vaultVer + 1
  /\ backendResult' = Returned(<<"create_note", t>>, NoGraphResponse)
  /\ BuilderFrame

BuilderIdle ==
  /\ vaultRefs = EmptyVault
  /\ backendResult = NoResult

\* ------------------------------------------------------------------------
\* Editor tab store (editorStore): openFiles and activeFilePath
\* ------------------------------------------------------------------------
TabPaths == NotePaths \cup {"c.md", "d.md"}

\* Array.prototype.findIndex, 1-based; the path is in the sequence
IndexOf(files, path) == CHOOSE i \in 1..Len(files) : files[i] = path

Min(x, y) == IF x <= y THEN x ELSE y

setActiveFile(path) ==
  /\ activeFilePath' = path
  /\ UNCHANGED openFiles

openFile(path) ==
  /\ openFiles' = IF path \in SeqToSet(openFiles) THEN openFiles ELSE Append(openFiles, path)
  /\ activeFilePath' = path

closeFileMutKeepActive(path) ==
  /\ openFiles' = SelectSeq(openFiles, LAMBDA f : f # path)
  /\ UNCHANGED activeFilePath

closeFile(path) ==
  LET newOpenFiles == SelectSeq(openFiles, LAMBDA f : f # path)
  IN /\ openFiles' = newOpenFiles
     /\ activeFilePath' =
          IF activeFilePath = path
          THEN IF Len(newOpenFiles) > 0
               THEN IF path \in SeqToSet(openFiles)
                    THEN newOpenFiles[Min(IndexOf(openFiles, path), Len(newOpenFiles))]
                    \* findIndex gives -1 and the index -1 holds no element
                    ELSE "undefined"
               ELSE null
          ELSE activeFilePath

closeAllFiles ==
  /\ openFiles' = <<>>
  /\ activeFilePath' = null

closeOtherFiles(path) ==
  IF path \in SeqToSet(openFiles)
  THEN openFiles' = <<path>> /\ activeFilePath' = path
  ELSE UNCHANGED <<openFiles, activeFilePath>>

TabFrame ==
  UNCHANGED <<panel, envVars, histVars, editorVars, nextId, inflight, cacheVars, graphVars,
              localVars, filterVars, links, lIsLoading, lError, lCurrentPathRef>>

\* Sidebar.handleSelectFile and the other callers of openFile
OpenFile(path) ==
  /\ panel = "tabs"
  /\ openFile(path)
  /\ TabFrame

\* Tab onClick: setActiveFile(file.path) for a tab of openFiles
TabClick(path) ==
  /\ panel = "tabs"
  /\ path \in SeqToSet(openFiles)
  /\ setActiveFile(path)
  /\ TabFrame

\* Tab onClose, the close-tab command, Sidebar.confirmDelete
CloseFile(path) ==
  /\ panel = "tabs"
  /\ closeFile(path)
  /\ TabFrame

\* the close-all-tabs command
CloseAllFiles ==
  /\ panel = "tabs"
  /\ closeAllFiles
  /\ TabFrame

CloseOtherFiles(path) ==
  /\ panel = "tabs"
  /\ closeOtherFiles(path)
  /\ TabFrame

\* ------------------------------------------------------------------------
\* Editor auto-save: handleContentChange, debouncedSave, saveToFile,
\* flushPendingSave for the note that is open in the editor
\* ------------------------------------------------------------------------
\* texts of the note; "c0" is what the file holds when it is opened
Contents == {"c0", "c1", "c2", "c3"}

EditorFrame ==
  UNCHANGED <<panel, envVars, histVars, tabVars, nextId, inflight, cacheVars, graphVars,
              localVars, linksVars, filterVars>>

\* saveToFile(content, path) up to its await
saveToFile(content) ==
  IF content = lastSavedContentRef
  THEN /\ saveState' = "saved"
       /\ UNCHANGED <<isSavingRef, writeInFlight>>
  ELSE IF isSavingRef
  THEN UNCHANGED <<saveState, isSavingRef, writeInFlight>>
  ELSE /\ isSavingRef' = TRUE
       /\ saveState' = "saving"
       /\ writeInFlight' = content

\* handleContentChange(content) with debouncedSave(content, activeFilePath)
handleContentChange(content) ==
  /\ panel = "editor"
  /\ content # localContent
  /\ localContent' = content
  /\ pendingContentRef' = content
  /\ saveState' = IF content # lastSavedContentRef THEN "dirty" ELSE saveState
  /\ debounceTimer' = content
  /\ UNCHANGED <<diskContent, lastSavedContentRef, isSavingRef, writeInFlight>>
  /\ EditorFrame

\* the debounce timer expires after AUTO_SAVE_DELAY
TimerExpires ==
  /\ panel = "editor"
  /\ debounceTimer # null
  /\ saveToFile(debounceTimer)
  /\ pendingContentRef' = null
  /\ debounceTimer' = null
  /\ UNCHANGED <<localContent, diskContent, lastSavedContentRef>>
  /\ EditorFrame

\* flushPendingSave, called by the window's blur listener
flushPendingSave ==
  /\ panel = "editor"
  /\ debounceTimer' = null
  /\ pendingContentRef' = null
  /\ IF pendingContentRef # null
     THEN saveToFile(pendingContentRef)
     ELSE UNCHANGED <<saveState, isSavingRef, writeInFlight>>
  /\ UNCHANGED <<localContent, diskContent, lastSavedContentRef>>
  /\ EditorFrame

\* writeFile resolves
WriteFileOk ==
  /\ panel = "editor"
  /\ writeInFlight # null
  /\ diskContent' = writeInFlight
  /\ lastSavedContentRef' = writeInFlight
  /\ saveState' = "saved"
  /\ isSavingRef' = FALSE
  /\ writeInFlight' = null
  /\ UNCHANGED <<localContent, pendingContentRef, debounceTimer>>
  /\ EditorFrame

\* writeFile rejects
WriteFileErr ==
  /\ panel = "editor"
  /\ writeInFlight # null
  /\ saveState' = "dirty"
  /\ isSavingRef' = FALSE
  /\ writeInFlight' = null
  /\ UNCHANGED <<localContent, diskContent, lastSavedContentRef, pendingContentRef,
                 debounceTimer>>
  /\ EditorFrame

\* the editor with a saved note loaded
EditorIdle ==
  /\ localContent = "c0"
  /\ diskContent = "c0"
  /\ lastSavedContentRef = "c0"
  /\ isSavingRef = FALSE
  /\ saveState = "saved"
  /\ pendingContentRef = null
  /\ debounceTimer = null
  /\ writeInFlight = null

\* ------------------------------------------------------------------------
\* Wikilink clicks: Editor.handleWikilinkClick and
\* OutgoingLinksPanel.handleLinkClick
\* ------------------------------------------------------------------------
\* link targets as the editor and the links list hand them over
WikiTargets == {"a", "b", "a.md", "b.md"}

\* link texts as ReadingView's data-target and LivePreview hand them to the
\* editor's handler: the text between the brackets, here with an anchor
\* suffix and in another letter case
RawTargets == {"a#h", "A"}

\* target.endsWith('.md') ? target : `${target}.md`
EnsureMd(target) ==
  CASE target = "a" -> "a.md"
    [] target = "b" -> "b.md"
    [] target = "a#h" -> "a#h.md"
    [] target = "A" -> "A.md"
    [] OTHER -> target

\* target.endsWith('.md') ? target.slice(0, -3) : target
TitleOf(target) ==
  CASE target = "a.md" -> "a"
    [] target = "b.md" -> "b"
    [] OTHER -> target

\* createNote('/', title) writes `${title}.md` at the vault root
CreatedPath(title) == EnsureMd(title)

Idle == [handler |-> "none", target |-> "", pc |-> "idle"]

ClickFrame ==
  UNCHANGED <<panel, editorVars, histVars, now, vaultVars, builderVars, nextId, inflight, cacheVars, graphVars,
              localVars, filterVars, links, lIsLoading, lError, lCurrentPathRef>>

\* the outgoing-links list after store.openFile(path): it is fetched again
\* when the active path has changed
OutgoingListAfter(path) ==
  shownResolved' = IF path # activeFilePath THEN notes' ELSE shownResolved

\* Editor.handleWikilinkClick up to its first await
handleWikilinkClick(target) ==
  /\ panel = "wikilink"
  /\ click = Idle
  /\ vaultPath # null
  /\ click' = [handler |-> "editor", target |-> target, pc |-> "fileExists"]
  /\ UNCHANGED <<notes, vaultVer, activeFilePath, openFiles, shownResolved>>
  /\ ClickFrame

\* isLinkResolved of the list entry for path
isLinkResolved(path) == EnsureMd(path) \in shownResolved

\* OutgoingLinksPanel.handleLinkClick(link.path, isLinkResolved(link)) up to
\* its first await, or to its end when nothing is awaited
handleLinkClick(path) ==
  /\ panel = "wikilink"
  /\ click = Idle
  /\ activeFilePath # null
  /\ IF ~isLinkResolved(path) /\ vaultPath # null
     THEN /\ click' = [handler |-> "panel", target |-> path, pc |-> "fileExists"]
          /\ UNCHANGED <<notes, vaultVer, activeFilePath, openFiles, shownResolved>>
     ELSE /\ UNCHANGED <<notes, vaultVer, click>>
          /\ openFile(EnsureMd(path))
          /\ OutgoingListAfter(EnsureMd(path))
  /\ ClickFrame

\* what fileExists (get_file_info succeeded) can answer for the path: a name
\* that differs from a file's only in letter case is found or not, as the
\* file system has it
fileExists(path) ==
  IF path \in notes THEN {TRUE}
  ELSE IF path = "A.md" /\ "a.md" \in notes THEN {TRUE, FALSE}
  ELSE {FALSE}

\* fileExists resolves; an existing target is opened
FileExistsReturns ==
  /\ click.pc = "fileExists"
  /\ UNCHANGED <<notes, vaultVer>>
  /\ \E found \in fileExists(EnsureMd(click.target)) :
     IF found
     THEN /\ click' = Idle
          /\ openFile(EnsureMd(click.target))
          /\ OutgoingListAfter(EnsureMd(click.target))
     ELSE /\ click' = [click EXCEPT !.pc = "createNote"]
          /\ UNCHANGED <<activeFilePath, openFiles, shownResolved>>
  /\ ClickFrame

\* createNote resolves: the note is on disk; the panel's handler calls
\* refresh(); the note is opened
CreateNoteOk ==
  /\ click.pc = "createNote"
  /\ vaultVer < MaxMutations
  /\ CreatedPath(TitleOf(click.target)) \notin notes
  /\ notes' = notes \cup {CreatedPath(TitleOf(click.target))}
  /\ vaultVer' = vaultVer + 1
  /\ click' = Idle
  /\ openFile(EnsureMd(click.target))
  /\ shownResolved' = IF click.handler = "panel" \/ EnsureMd(click.target) # activeFilePath
                      THEN notes' ELSE shownResolved
  /\ ClickFrame

\* Sidebar.handleSelectFile: a file of the tree is clicked
handleSelectFile(path) ==
  /\ panel = "wikilink"
  /\ path \in notes
  /\ UNCHANGED <<notes, vaultVer, click>>
  /\ openFile(path)
  /\ OutgoingListAfter(path)
  /\ ClickFrame

\* createNote rejects: a notification, and the handler returns
CreateNoteErr ==
  /\ click.pc = "createNote"
  /\ click' = Idle
  /\ UNCHANGED <<notes, vaultVer, activeFilePath, openFiles, shownResolved>>
  /\ ClickFrame

ClickIdle ==
  /\ click = Idle
  /\ shownResolved = {}

\* ------------------------------------------------------------------------
\* Specification of the hooks
\* ------------------------------------------------------------------------
\* the hooks, caches and stores as constructed
\* everything but the graph hooks and their cache, as constructed
StoresInit ==
  /\ now = 0
  /\ vaultVer = 0
  /\ vaultPath = "V1"
  /\ v1Payloads = {}
  /\ preInvalidation = {}
  /\ linksCache = EmptyMap
  /\ activeFilePath = null
  /\ openFiles = <<>>
  /\ links = EmptyLinks
  /\ lIsLoading = FALSE
  /\ lError = null
  /\ lCurrentPathRef = null
  /\ EditorIdle

\* useGraph as constructed
GraphHookInit ==
  /\ gMounted = FALSE
  /\ gRawData = NoData
  /\ gIsLoading = FALSE
  /\ gError = null
  /\ fetchInProgressRef = FALSE

\* useLocalGraph as constructed
LocalHookInit ==
  /\ centerPath = null
  /\ depth = MinDepth
  /\ lgRawData = NoData
  /\ lgIsLoading = FALSE
  /\ lgError = null
  /\ lgCurrentPathRef = null

HookStateInit ==
  /\ StoresInit
  /\ nextId = 0
  /\ inflight = {}
  /\ graphCache = EmptyMap
  /\ GraphHookInit
  /\ LocalHookInit

\* The first invocation has been answered with the payload filterInput: it is
\* the hook's rawData and it is in the cache (GraphView without a center,
\* LocalGraph with one)
PayloadShown ==
  /\ StoresInit
  /\ notes = {"a.md"}
  /\ nextId = 1
  /\ inflight = {}
  /\ IF filterCenterPath = <<>>
     THEN /\ graphCache = MapSet(EmptyMap, FullKey,
                                 [data |-> Payload(FullKey, 1), timestamp |-> 0])
          /\ gMounted = TRUE
          /\ gRawData = Payload(FullKey, 1)
          /\ gIsLoading = FALSE
          /\ gError = null
          /\ fetchInProgressRef = FALSE
          /\ LocalHookInit
     ELSE /\ graphCache = MapSet(EmptyMap, LocalKey("a.md", MinDepth),
                                 [data |-> Payload(LocalKey("a.md", MinDepth), 1),
                                  timestamp |-> 0])
          /\ centerPath = "a.md"
          /\ depth = MinDepth
          /\ lgRawData = Payload(LocalKey("a.md", MinDepth), 1)
          /\ lgIsLoading = FALSE
          /\ lgError = null
          /\ lgCurrentPathRef = "a.md"
          /\ GraphHookInit

HooksInit ==
  /\ notes = {"a.md"}
  /\ HookStateInit

Init ==
  /\ panel \in Panels
  /\ HooksInit
  /\ BuilderIdle
  /\ ClickIdle
  /\ filterInput = NoGraph
  /\ filterCenterPath = <<>>
  /\ currentFilters = Filters(<<>>, "", "undefined", "undefined")
  /\ graphData = NoGraph

Next ==
  \/ \E p \in NotePaths \cup {null} : SetActiveFilePath(p)
  \/ LinksRefresh
  \/ \E r \in inflight : LinksResponseOk(r)
  \/ \E r \in inflight : LinksResponseErr(r)
  \/ \E p \in NotePaths \cup {null} : SetCenterPath(p)
  \/ \E value \in DepthInputs : handleDepthChange(value)
  \/ LocalRefresh
  \/ \E r \in inflight : LocalResponseOk(r)
  \/ \E r \in inflight : LocalResponseErr(r)
  \/ GraphMount
  \/ GraphUnmount
  \/ GraphRefresh
  \/ \E r \in inflight : GraphResponseOk(r)
  \/ \E r \in inflight : GraphResponseErr(r)
  \/ Tick
  \/ \E p \in NotePaths : ConfirmCreateNote(p)
  \/ \E p \in NotePaths : ConfirmDelete(p)
  \/ \E p, q \in NotePaths : ConfirmRename(p, q)
  \/ \E p \in NotePaths : SaveToFile(p)

Spec == Init /\ [][Next]_vars

\* an outstanding invocation settles
Settles ==
  \E r \in inflight :
    \/ LinksResponseOk(r) \/ LinksResponseErr(r)
    \/ LocalResponseOk(r) \/ LocalResponseErr(r)
    \/ GraphResponseOk(r) \/ GraphResponseErr(r)

\* The hooks with a backend that answers every invocation
SpecSettling == Init /\ [][Next]_vars /\ WF_vars(Settles)

\* The hooks while the user replaces the open vault by a second one
NextVault ==
  \/ Next
  \/ SetVault

SpecVault == Init /\ [][NextVault]_vars

\* ------------------------------------------------------------------------
\* Specification of the filter stage: a payload has arrived (rawData), the
\* component shows transformToD3 of it and the user works the controls
\* ------------------------------------------------------------------------
InitTransform ==
  /\ panel = "filter"
  /\ BuilderIdle
  /\ ClickIdle
  /\ filterInput \in GraphInputs
  /\ filterCenterPath \in {<<>>} \cup {filterInput.nodes[i].path : i \in 1..Len(filterInput.nodes)}
  /\ PayloadShown
  /\ currentFilters \in InitialFilters
  /\ graphData = transformToD3(filterInput, currentFilters, filterCenterPath)

NextTransform ==
  \/ \E value \in getUniqueFolders(filterInput) \cup {<<>>} : handleFolderChange(value)
  \/ \E value \in {"", "t"} : handleTagChange(value)
  \/ handleToggleOrphans
  \/ handleToggleConceptLinks
  \/ handleClearFilters

SpecTransform == InitTransform /\ [][NextTransform]_vars

\* ------------------------------------------------------------------------
\* Specification of the filter stage on any payload, also one whose edges
\* name missing nodes (GraphView: no center)
\* ------------------------------------------------------------------------
InitTransformRaw ==
  /\ panel = "filter"
  /\ BuilderIdle
  /\ ClickIdle
  /\ filterInput \in RawGraphInputs
  /\ filterCenterPath = <<>>
  /\ PayloadShown
  /\ currentFilters \in InitialFilters
  /\ graphData = transformToD3(filterInput, currentFilters, filterCenterPath)

SpecTransformRaw == InitTransformRaw /\ [][NextTransform]_vars

\* ------------------------------------------------------------------------
\* Specification of the graph engine: a vault is open, the commands are
\* called and a note is created
\* ------------------------------------------------------------------------
InitBuilder ==
  /\ panel = "builder"
  /\ HooksInit
  /\ filterInput = NoGraph
  /\ filterCenterPath = <<>>
  /\ currentFilters = Filters(<<>>, "", "undefined", "undefined")
  /\ graphData = NoGraph
  /\ vaultRefs \in Vaults
  /\ backendResult = NoResult
  /\ ClickIdle

NextBuilder ==
  \/ get_graph_data
  \/ \E path \in Titles, d \in MinDepth..MaxDepth : get_local_graph(path, d)
  \/ \E t \in Titles : create_note(t)

SpecBuilder == InitBuilder /\ [][NextBuilder]_vars

\* ------------------------------------------------------------------------
\* Specification of the wikilink clicks: a vault with some notes is open,
\* notes are selected in the tree, links are clicked in the editor and in
\* the outgoing-links list, and notes are deleted from the sidebar (of the
\* active note's deletion, which also closes its tab, only the other notes'
\* case is taken here)
\* ------------------------------------------------------------------------
InitWikilink ==
  /\ panel = "wikilink"
  /\ notes \in SUBSET NotePaths
  /\ HookStateInit
  /\ BuilderIdle
  /\ ClickIdle
  /\ filterInput = NoGraph
  /\ filterCenterPath = <<>>
  /\ currentFilters = Filters(<<>>, "", "undefined", "undefined")
  /\ graphData = NoGraph

NextWikilink ==
  \/ \E path \in NotePaths : handleSelectFile(path)
  \/ \E target \in WikiTargets \cup RawTargets :
       activeFilePath # null /\ handleWikilinkClick(target)
  \/ \E path \in WikiTargets : handleLinkClick(path)
  \/ FileExistsReturns
  \/ CreateNoteOk
  \/ CreateNoteErr
  \/ \E p \in NotePaths : p # activeFilePath /\ ConfirmDelete(p)

SpecWikilink == InitWikilink /\ [][NextWikilink]_vars

\* ------------------------------------------------------------------------
\* Specification of the tab store: files are opened, selected and closed
\* ------------------------------------------------------------------------
InitTabs ==
  /\ panel = "tabs"
  /\ HooksInit
  /\ BuilderIdle
  /\ ClickIdle
  /\ filterInput = NoGraph
  /\ filterCenterPath = <<>>
  /\ currentFilters = Filters(<<>>, "", "undefined", "undefined")
  /\ graphData = NoGraph

NextTabs ==
  \/ \E path \in TabPaths : OpenFile(path)
  \/ \E path \in TabPaths : TabClick(path)
  \/ \E path \in TabPaths : CloseFile(path)
  \/ CloseAllFiles
  \/ \E path \in TabPaths : CloseOtherFiles(path)

SpecTabs == InitTabs /\ [][NextTabs]_vars

\* ------------------------------------------------------------------------
\* Specification of the editor's auto-save: a saved note is loaded, the user
\* types, timers expire, the window loses focus and writes settle
\* ------------------------------------------------------------------------
InitEditor ==
  /\ panel = "editor"
  /\ HooksInit
  /\ BuilderIdle
  /\ ClickIdle
  /\ filterInput = NoGraph
  /\ filterCenterPath = <<>>
  /\ currentFilters = Filters(<<>>, "", "undefined", "undefined")
  /\ graphData = NoGraph

NextEditor ==
  \/ \E content \in Contents : handleContentChange(content)
  \/ TimerExpires
  \/ flushPendingSave
  \/ WriteFileOk
  \/ WriteFileErr

SpecEditor == InitEditor /\ [][NextEditor]_vars

\* ------------------------------------------------------------------------
\* Claims
\* ------------------------------------------------------------------------
LocalArrives(r) == LocalResponseOk(r) \/ LocalResponseErr(r)
LinksArrives(r) == LinksResponseOk(r) \/ LinksResponseErr(r)

\* C1: a get_local_graph response changes the displayed state (rawData,
\* error) only if the key it answers, center path and depth, is the key
\* selected when it arrives; a response for any other key is discarded.
C1_StaleLocalResponseDiscarded ==
  [][\A r \in inflight :
       (LocalArrives(r) /\ r.key # LocalKey(centerPath, depth))
         => UNCHANGED <<lgRawData, lgError>>]_vars

\* C2: the links response for path P changes the displayed state (the two
\* lists, error) only if P is the selected path when it arrives.
C2_StaleLinksResponseDiscarded ==
  [][\A r \in inflight :
       (LinksArrives(r) /\ r.key # LinksKey(activeFilePath))
         => UNCHANGED <<links, lError>>]_vars

\* C3: single-flight: no two backend invocations for the same cache key are
\* outstanding at the same time.
C3_SingleFlight ==
  \A r1, r2 \in inflight : r1.key = r2.key => r1 = r2

PersistedMutation(p) ==
  \/ ConfirmCreateNote(p)
  \/ ConfirmDelete(p)
  \/ SaveToFile(p)
  \/ \E q \in NotePaths : ConfirmRename(p, q) \/ ConfirmRename(q, p)

\* C4: when a persisted vault mutation of path p completes, the full-graph
\* entry and the local-graph and link-list entries keyed by p are gone from
\* the caches.
C4_MutationInvalidates ==
  [][\A p \in NotePaths :
       PersistedMutation(p)
         => /\ ~MapHas(graphCache', FullKey)
            /\ \A d \in MinDepth..MaxDepth : ~MapHas(graphCache', LocalKey(p, d))
            /\ ~MapHas(linksCache', p)]_vars

Age(entry) == now - entry.timestamp

\* A request that is not a refresh, for key k of the class with cache `cache`
\* and time to live ttl, made by a step that shows `shown`: an entry younger
\* than ttl is shown as it is and nothing is invoked; without such an entry
\* the backend is invoked for k and nothing is taken from the cache.
AnsweredByTTL(cache, k, mapKey, ttl, shown, shownNext) ==
  IF MapHas(cache, mapKey) /\ Age(cache[mapKey]) < ttl
  THEN inflight' = inflight /\ shownNext = cache[mapKey].data
  ELSE /\ \E r \in inflight' \ inflight : r.key = k /\ inflight' = inflight \cup {r}
       /\ shownNext = shown

\* C5: per class, a request made while the key's entry is younger than the
\* TTL (60 s full and local graph, 30 s link lists) is answered with the
\* cached payload and no invocation; made at age >= TTL it invokes the backend.
C5_CacheTTL ==
  [][/\ GraphMount => AnsweredByTTL(graphCache, FullKey, FullKey, GRAPH_CACHE_TTL, NoData, gRawData')
     /\ \A p \in NotePaths :
          SetCenterPath(p) => AnsweredByTTL(graphCache, LocalKey(p, depth), LocalKey(p, depth),
                                            GRAPH_CACHE_TTL, lgRawData, lgRawData')
     /\ \A d \in Depths :
          (SetDepth(d) /\ centerPath # null)
            => AnsweredByTTL(graphCache, LocalKey(centerPath, d), LocalKey(centerPath, d),
                             GRAPH_CACHE_TTL, lgRawData, lgRawData')
     /\ \A p \in NotePaths :
          SetActiveFilePath(p) => AnsweredByTTL(linksCache, LinksKey(p), p,
                                                LINKS_CACHE_TTL, links, links')]_vars

\* C5 witness: the local graph of a.md is shown from its cache entry although
\* the last invocation was for b.md, and b.md's entry was written after
\* a.md's: the request for a.md that followed was answered by an entry of
\* positive age
C5_Witness ==
  /\ panel = "local"
  /\ centerPath = "a.md"
  /\ lgCurrentPathRef = "b.md"
  /\ MapHas(graphCache, LocalKey("a.md", depth))
  /\ lgRawData = graphCache[LocalKey("a.md", depth)].data
  /\ \E d \in Depths :
       /\ MapHas(graphCache, LocalKey("b.md", d))
       /\ graphCache[LocalKey("b.md", d)].timestamp
            > graphCache[LocalKey("a.md", depth)].timestamp

ShowOrphans == OrDefaultTrue(currentFilters.showOrphans)
ShowConceptLinks == OrDefaultTrue(currentFilters.showConceptLinks)
OutIds == {graphData.nodes[i].id : i \in 1..Len(graphData.nodes)}
OutNode(id) == graphData.nodes[CHOOSE i \in 1..Len(graphData.nodes) : graphData.nodes[i].id = id]
InNodes == SeqToSet(filterInput.nodes)

\* C6: with showOrphans=false no node of the output has zero edges in the
\* output edge set.
C6_NoOrphanInOutput ==
  ~ShowOrphans => \A id \in OutIds : Degree(graphData.edges, id) > 0

\* a note of the payload all of whose edges, at least one, are concept edges
ConceptOnlyNote(n) ==
  /\ n.nodeType = "note"
  /\ Degree(filterInput.edges, n.id) > 0
  /\ \A e \in SeqToSet(filterInput.edges) : Touches(e, n.id) => e.edgeType = "concept"

\* C7: with no folder scope, a note connected only by concept edges is absent
\* when showConceptLinks=false and showOrphans=false, and present with zero
\* edges when showConceptLinks=false and showOrphans=true.
C7_FilterOrdering ==
  \A n \in InNodes :
    (ConceptOnlyNote(n) /\ ~ShowConceptLinks /\ currentFilters.folderPath = <<>>)
      => IF ShowOrphans
         THEN n.id \in OutIds /\ Degree(graphData.edges, n.id) = 0
         ELSE n.id \notin OutIds

\* C8: each output node's connection count is the number of output edges
\* that have the node as an endpoint.
C8_ConnectionsRederived ==
  \A id \in OutIds : OutNode(id).connections = Degree(graphData.edges, id)

\* C9: with showConceptLinks=false the output has no concept edge and no
\* concept node.
C9_NoConceptWhenHidden ==
  ~ShowConceptLinks
    => /\ \A e \in SeqToSet(graphData.edges) : e.edgeType # "concept"
       /\ \A id \in OutIds : OutNode(id).nodeType # "concept"

KeptNoteIds ==
  {n.id : n \in {m \in InNodes : m.nodeType = "note" /\ StartsWith(m.path, currentFilters.folderPath)}}

\* C10: with a folder prefix F set, the output's note nodes are exactly the
\* input notes whose path starts with F, and a concept node is in the output
\* iff an edge connects it to a kept note.
C10_FolderScope ==
  currentFilters.folderPath # <<>>
    => /\ {id \in OutIds : OutNode(id).nodeType = "note"} = KeptNoteIds
       /\ \A c \in InNodes :
            c.nodeType = "concept"
              => (c.id \in OutIds
                    <=> \E e \in SeqToSet(filterInput.edges) :
                          Touches(e, c.id) /\ (e.source \in KeptNoteIds \/ e.target \in KeptNoteIds))

\* C11: with a tag filter T set, no output node is without tag T and no
\* output edge touches a node without T.
C11_TagScope ==
  currentFilters.tag # ""
    => /\ \A id \in OutIds : currentFilters.tag \in NodeTags(OutNode(id))
       /\ \A e \in SeqToSet(graphData.edges) :
            \A n \in InNodes : Touches(e, n.id) => currentFilters.tag \in NodeTags(n)

\* C12: the graph shown for a local-graph payload that holds its center
\* contains the center node, whatever filters are applied.
C12_CenterKept ==
  filterCenterPath # <<>> => \E id \in OutIds : OutNode(id).path = filterCenterPath

\* C13: when a full-graph or local-graph fetch fails and the error is exposed,
\* the graph exposed with it is empty: no payload of an earlier request or of
\* another key stays in rawData.
C13_FailureExposesEmptyGraph ==
  [][\A r \in inflight :
       /\ (GraphResponseErr(r) /\ gError' # null) => gRawData' = NoData
       /\ (LocalResponseErr(r) /\ lgError' # null) => lgRawData' = NoData]_vars

\* a local-graph query for center p: the path is selected, or it is selected
\* and the depth changes or refresh is called
LocalQuery(p) ==
  \/ SetCenterPath(p)
  \/ centerPath = p /\ (LocalRefresh \/ \E d \in Depths : SetDepth(d))

\* C14: a local-graph query whose center is not a known note is never
\* answered with a graph and no error: it reaches the resolver, which fails
\* it with NotFound.
C14_UnknownCenterFails ==
  [][\A p \in NotePaths :
       (LocalQuery(p) /\ ~KnownNote(p))
         => ~(lgError' = null /\ lgRawData' # NoData /\ inflight' = inflight)]_vars

C16_NoPayloadAcrossVaults ==
  [][vaultPath' = "V2"
       => /\ gRawData' # gRawData => gRawData'.id \notin v1Payloads'
          /\ lgRawData' # lgRawData => lgRawData'.id \notin v1Payloads'
          /\ links' # links => links'.id \notin v1Payloads']_vars

\* b is at most k hops from a in g, over direct and concept edges
RECURSIVE WithinHops(_, _, _, _)
WithinHops(g, a, b, k) ==
  \/ a = b
  \/ /\ k > 0
     /\ \E c \in NodeIds(g) :
          /\ \E e \in g.edges : (e.source = c /\ e.target = b) \/ (e.source = b /\ e.target = c)
          /\ WithinHops(g, a, c, k - 1)

\* the chain A -> B -> C -> D
ChainVault == [t \in Titles |-> IF t = "A" THEN {"B"} ELSE IF t = "B" THEN {"C"}
                                ELSE IF t = "C" THEN {"D"} ELSE {}]

\* C17: localGraph(center, depth) of a known center returns exactly the nodes
\* at shortest-path distance <= depth from the center, over direct and
\* concept edges, and exactly the edges with both endpoints among them; on
\* the chain A->B->C->D depth 1 from A gives {A,B} and depth 2 gives {A,B,C}.
C17_LocalGraphInduced ==
  (backendResult.cmd[1] = "get_local_graph" /\ Resolves(vaultRefs, backendResult.cmd[2]))
    => LET g == buildGraph(vaultRefs)
           r == backendResult
           path == backendResult.cmd[2]
           d == backendResult.cmd[3]
       IN /\ r.status = "ok"
          /\ \A n \in g.nodes : n \in r.nodes <=> WithinHops(g, NoteId(path), n.id, d)
          /\ r.nodes \subseteq g.nodes
          /\ \A e \in g.edges :
               e \in r.edges <=> (e.source \in NodeIds(r) /\ e.target \in NodeIds(r))
          /\ r.edges \subseteq g.edges
          /\ (vaultRefs = ChainVault /\ path = "A" /\ d = 1)
               => NodeIds(r) = {NoteId("A"), NoteId("B")}
          /\ (vaultRefs = ChainVault /\ path = "A" /\ d = 2)
               => NodeIds(r) = {NoteId("A"), NoteId("B"), NoteId("C")}

\* C17 witness: a local graph of the chain that stops two hops from A
C17_Witness ==
  /\ vaultRefs = ChainVault
  /\ backendResult.cmd = <<"get_local_graph", "A", 2>>
  /\ backendResult.status = "ok"
  /\ NodeIds(backendResult) = {NoteId("A"), NoteId("B"), NoteId("C")}
  /\ Cardinality(backendResult.edges) = 2

\* the notes whose text refers to identifier t
Referrers(vault, t) == {s \in DOMAIN vault : t \in vault[s]}

ConceptNodesFor(g, t) == {n \in g.nodes : n.nodeType = "concept" /\ n.id[2] = t}
ConceptEdgesFor(g, t) == {e \in g.edges : e.edgeType = "concept" /\ e.concept = t}

\* C18: a rebuilt graph has, for an identifier that resolves to no note and
\* is referenced, exactly one concept node and one concept edge from each
\* referencing note; for an identifier a note resolves (also one created
\* since the last build) it has no concept node and every reference is a
\* direct edge to that note.
C18_ConceptLifecycle ==
  backendResult.cmd[1] = "get_graph_data"
    => LET r == backendResult
       IN \A t \in Titles :
            IF Resolves(vaultRefs, t)
            THEN /\ ConceptNodesFor(r, t) = {}
                 /\ ConceptEdgesFor(r, t) = {}
                 /\ \A s \in Referrers(vaultRefs, t) :
                      \E e \in r.edges : /\ e.edgeType = "direct"
                                         /\ e.source = NoteId(s)
                                         /\ e.target = NoteId(t)
            ELSE /\ Cardinality(ConceptNodesFor(r, t))
                      = IF Referrers(vaultRefs, t) = {} THEN 0 ELSE 1
                 /\ {e.source : e \in ConceptEdgesFor(r, t)}
                      = {NoteId(s) : s \in Referrers(vaultRefs, t)}
                 /\ Cardinality(ConceptEdgesFor(r, t))
                      = Cardinality(Referrers(vaultRefs, t))
                 /\ \A e \in ConceptEdgesFor(r, t) : e.target = ConceptIdOf(t)

\* C18 witness: note D was created after the vault was opened, X = A and
\* Y = B referred to D before it existed, and the graph built since shows
\* both references as direct edges and no concept node
C18_Witness ==
  /\ panel = "builder"
  /\ vaultVer = 1
  /\ Resolves(vaultRefs, "D") /\ vaultRefs["D"] = {}
  /\ Referrers(vaultRefs, "D") = {"A", "B"}
  /\ backendResult.cmd[1] = "get_graph_data"
  /\ ConceptNodesFor(backendResult, "D") = {}
  /\ {e \in backendResult.edges : e.target = NoteId("D") /\ e.edgeType = "direct"}
       = {[source |-> NoteId("A"), target |-> NoteId("D"), edgeType |-> "direct", concept |-> ""],
          [source |-> NoteId("B"), target |-> NoteId("D"), edgeType |-> "direct", concept |-> ""]}

\* the kind of the node with id `id` among nodes, "absent" when there is none
KindOf(nodes, id) ==
  IF \E n \in nodes : n.id = id
  THEN (CHOOSE n \in nodes : n.id = id).nodeType
  ELSE "absent"

\* every direct edge joins two notes of nodes, every concept edge joins one
\* note and one concept of nodes
EdgeKindsOK(nodes, edges) ==
  \A e \in edges :
    /\ e.edgeType \in {"direct", "concept"}
    /\ e.edgeType = "direct"
         => KindOf(nodes, e.source) = "note" /\ KindOf(nodes, e.target) = "note"
    /\ e.edgeType = "concept"
         => \/ KindOf(nodes, e.source) = "note" /\ KindOf(nodes, e.target) = "concept"
            \/ KindOf(nodes, e.source) = "concept" /\ KindOf(nodes, e.target) = "note"

\* C19: in the payload handed to the filter stage and in the stage's output,
\* a direct edge connects two note nodes and a concept edge connects one note
\* node and one concept node of the same graph.
C19_EdgeKinds ==
  /\ EdgeKindsOK(SeqToSet(filterInput.nodes), SeqToSet(filterInput.edges))
  /\ EdgeKindsOK(SeqToSet(graphData.nodes), SeqToSet(graphData.edges))

\* C19 witness: a folder scope has removed nodes and edges and edges remain
C19_Witness ==
  /\ currentFilters.folderPath # <<>>
  /\ Len(graphData.nodes) < Len(filterInput.nodes)
  /\ Len(graphData.edges) < Len(filterInput.edges)
  /\ Len(graphData.edges) > 0

\* the same for the graphs the engine returns
BuilderEdgeKinds ==
  EdgeKindsOK(backendResult.nodes, backendResult.edges)

\* a step of a click handler for target t that calls openFile
ClickOpens(t) ==
  \/ handleLinkClick(t) /\ click' = Idle
  \/ click.target = t /\ FileExistsReturns /\ click' = Idle
  \/ click.target = t /\ CreateNoteOk

\* C20: a wikilink click opens the target only when its note is on disk,
\* having created it when it was missing; it creates no note for a target
\* that exists; when creation fails nothing is opened.
C20_WikilinkClick ==
  [][/\ \A t \in WikiTargets : ClickOpens(t) => EnsureMd(t) \in notes'
     /\ CreateNoteOk => EnsureMd(click.target) \notin notes
     /\ CreateNoteErr => activeFilePath' = activeFilePath]_vars

\* C21: an invocation that was in flight when refresh removed its key's cache
\* entry does not write that key again when it is answered: an entry removed
\* by invalidation comes back only from a request issued after the removal.
C21_NoRepopulationAfterInvalidation ==
  [][\A r \in inflight :
       (r.id \in preInvalidation
          /\ (LinksResponseOk(r) \/ LocalResponseOk(r) \/ GraphResponseOk(r)))
         => cacheVars' = cacheVars]_vars

\* C22: every entry of graphCache and linksCache holds a payload the backend
\* returned for the key the entry is stored under.
C22_CacheKeyMatchesPayload ==
  /\ \A k \in DOMAIN graphCache : graphCache[k].data.key = k
  /\ \A path \in DOMAIN linksCache : linksCache[path].data.key = LinksKey(path)

\* C22 witness: the response for depth 1 arrived after the depth had changed
\* to 2 and after the response for depth 2; it is shown, and it was stored
\* under its own key
C22_Witness ==
  /\ panel = "local"
  /\ now = 0
  /\ centerPath = "a.md" /\ depth = 2
  /\ MapHas(graphCache, LocalKey("a.md", 1)) /\ MapHas(graphCache, LocalKey("a.md", 2))
  /\ lgRawData = graphCache[LocalKey("a.md", 1)].data

\* a step that invokes the backend for key k
Requests(k) == \E r \in inflight' \ inflight : r.key = k

\* C23: every call of refresh on a hook with a current key invokes the
\* backend for that key, so that what is shown once the refresh has settled
\* was computed after the call.
C23_RefreshRefetches ==
  [][/\ GraphRefresh => Requests(FullKey)
     /\ (LocalRefresh /\ centerPath # null) => Requests(LocalKey(centerPath, depth))
     /\ (LinksRefresh /\ activeFilePath # null) => Requests(LinksKey(activeFilePath))]_vars

\* C24: whenever the save state is 'saved' with no write in flight and no
\* debounce pending, the file holds the editor's current content: no edit is
\* lost, also not one made while an earlier write was in flight.
C24_AutoSaveLosesNoEdit ==
  (saveState = "saved" /\ writeInFlight = null /\ debounceTimer = null)
    => diskContent = localContent

\* Resolution rule: the anchor suffix is stripped and the identifier is
\* case-folded; the note file it names
Canonical(target) ==
  CASE target \in {"a", "a.md", "a#h", "A"} -> "a.md"
    [] target \in {"b", "b.md"} -> "b.md"

\* C25: a click on [[T#heading]] or on [[t]], T an existing note, opens T as
\* a click on [[T]] does and creates nothing; no click creates a note whose
\* name contains the anchor.
C25_AnchorAndCaseResolved ==
  [][/\ (FileExistsReturns /\ click.target \in RawTargets /\ Canonical(click.target) \in notes)
          => (click' = Idle /\ activeFilePath' = Canonical(click.target))
     /\ CreateNoteOk => (Canonical(click.target) \notin notes /\ "a#h.md" \notin notes')]_vars

\* C26: a backend request that fails adds and modifies no cache entry, and
\* the failure is not cached: a request for the key made while the error is
\* shown and no fresh entry exists invokes the backend again.
C26_FailureLeavesCache ==
  [][/\ \A r \in inflight :
          (GraphResponseErr(r) \/ LocalResponseErr(r) \/ LinksResponseErr(r))
            => cacheVars' = cacheVars
     /\ \A path \in NotePaths :
          (SetActiveFilePath(path) /\ lError # null /\ ~LinksHit(linksCache, path))
            => Requests(LinksKey(path))
     /\ \A path \in NotePaths :
          (SetCenterPath(path) /\ lgError # null /\ ~GraphHit(graphCache, LocalKey(path, depth)))
            => Requests(LocalKey(path, depth))
     /\ (LinksRefresh /\ lError # null /\ activeFilePath # null)
          => Requests(LinksKey(activeFilePath))
     /\ (LocalRefresh /\ lgError # null /\ centerPath # null)
          => Requests(LocalKey(centerPath, depth))]_vars

\* C26 witness: the fetch for a.md has failed while the cache held b.md's
\* entry; the error is shown, b.md's entry is still there and a.md has none
C26_Witness ==
  /\ panel = "links"
  /\ activeFilePath = "a.md"
  /\ lError # null
  /\ ~lIsLoading
  /\ MapHas(linksCache, "b.md")
  /\ ~MapHas(linksCache, "a.md")

Loading == gIsLoading \/ lgIsLoading \/ lIsLoading

\* C27: when every issued request settles, isLoading eventually becomes
\* false and stays false, and it is never true while no request is
\* outstanding, in whatever order overlapping requests settle.
C27_LoadingEnds ==
  /\ [](inflight = {} => ~Loading)
  /\ <>[](~Loading)

\* C27 witness: two requests overlapped, the later one has settled and
\* ended the loading while the earlier one is still outstanding
C27_Witness ==
  /\ panel = "local"
  /\ ~lgIsLoading
  /\ \E r \in inflight : r.id = 1 /\ r.key # LocalKey(centerPath, depth)
  /\ nextId = 2
  /\ lgRawData.id = 2

\* C28: every edge in the output of transformToD3 has its source and its
\* target among the output nodes, for every payload (also one whose edges
\* name nodes missing from its node list) and every filter setting.
C28_OutputEdgesClosed ==
  \A e \in SeqToSet(graphData.edges) : e.source \in OutIds /\ e.target \in OutIds

\* C28 witness: the payload has an edge to a node that is not in its node
\* list, orphans are hidden, and the output still has edges
C28_Witness ==
  /\ \E e \in SeqToSet(filterInput.edges) :
       e.target \notin {n.id : n \in InNodes} \/ e.source \notin {n.id : n \in InNodes}
  /\ ~ShowOrphans
  /\ Len(graphData.edges) > 0
  /\ Len(graphData.edges) < Len(filterInput.edges)

\* C29: applyFilters issues no backend request and leaves the raw payload
\* and every cache entry unchanged; the graph shown after it is transformToD3
\* of the raw payload and the filters applied, whatever was applied before.
C29_FiltersOnlyDerive ==
  [][\A newFilters \in {currentFilters'} :
       applyFilters(newFilters)
         => /\ UNCHANGED <<nextId, inflight, cacheVars, gRawData, lgRawData, filterInput>>
            /\ graphData' = transformToD3(filterInput, newFilters, filterCenterPath)]_vars

\* C29 witness: with the payload cached and shown, filters were applied that
\* hide a part of it
C29_Witness ==
  /\ currentFilters.showOrphans = "false"
  /\ currentFilters.tag = "t"
  /\ Len(graphData.nodes) < Len(filterInput.nodes)
  /\ MapHas(graphCache, FullKey)
  /\ gRawData = graphCache[FullKey].data

\* C30: in the tab store no two entries of openFiles have the same path, and
\* activeFilePath is null exactly when openFiles is empty and is otherwise
\* the path of one of the open files.
C30_TabStoreConsistent ==
  /\ \A i, j \in 1..Len(openFiles) : openFiles[i] = openFiles[j] => i = j
  /\ activeFilePath = null <=> openFiles = <<>>
  /\ activeFilePath # null => activeFilePath \in SeqToSet(openFiles)

\* C30 witness: three tabs are open and the active one is not the one opened
\* last: a tab was selected, or tabs were closed and opened again
C30_Witness ==
  /\ panel = "tabs"
  /\ openFiles = <<"a.md", "b.md", "c.md">>
  /\ activeFilePath = "a.md"

====
